---- MODULE Spec2Model ----
(***************************************************************************)
(* A state-machine model of tapiriik's Garmin Connect service adapter      *)
(* (tapiriik/services/GarminConnect/garminconnect.py):                     *)
(*   - the session manager: _get_cookies, Authorize and the shared         *)
(*     SessionCache(lifetime = 30 min, freshen_on_get = True);             *)
(*   - the activity-type hierarchy walker _resolveActivityType;            *)
(*   - the paginated listing DownloadActivityList;                         *)
(*   - the detail fetch DownloadActivity;                                  *)
(*   - the multi-step upload UploadActivity.                               *)
(* Every remote response is a nondeterministic input drawn from a small    *)
(* set.  Each subsystem has its own specification; the variables of the    *)
(* other subsystems stay at their initial value.                           *)
(***************************************************************************)
EXTENDS Integers, Sequences, FiniteSets, TLC

VARIABLES
    \* ---- session manager ----
    now,          \* datetime.utcnow(), in minutes
    sessionCache, \* SessionCache._cache: ExternalID -> [value, timestamp, setAt]
    remoteAuth,   \* remote side: session cookie -> the login that was answered 302 for it
    nextSid,      \* remote side: next session cookie the sign-in page issues
    pc,           \* position of each caller inside _get_cookies / Authorize
    op,           \* "get": _get_cookies(record=...); "auth": Authorize(email, password)
    acct,         \* the account (record.ExternalID / email) of the call
    jar,          \* preResp.cookies of the call
    reqs,         \* remote requests the call has issued so far
    loginStatus,  \* resp.status_code of the call's login POST (0: none yet)
    outcome,      \* how the caller's last call ended
    \* ---- activity-type resolution ----
    hierarchy,    \* self._activityHierarchy: sequence of [key, parent]
    act_type,     \* the loop variable of _resolveActivityType
    rpc,          \* "idle" | "loop" | "returned" | "raised"
    passes,       \* parity of the passes of the loop made so far in this call
    resolved,     \* the value returned
    \* ---- listing ----
    lpc,          \* "idle" | "cookies" | "fetch" | "returned" | "raised" | "hung"
    listExc,      \* the exception DownloadActivityList ended with ("" while none)
    exhaustive,
    page,
    activities,
    exclusions,
    pageReqs,     \* the params of every page request issued, in order
    resolveCalls, \* activityIds for which _resolveActivityType was invoked
    seen,         \* the raw records the for loop has reached so far, in order
    lastPage,     \* the last page response: [hasActivities, totalPages]
    \* ---- detail fetch ----
    dpc,          \* "idle" | "cookies" | "fetch" | "returned" | "raised"
    Stats,        \* activity.Stats
    Laps,         \* activity.Laps: sequence of lap Stats
    listingStats, \* activity.Stats as the listing produced it
    parsedLaps,   \* activity.Laps as TCXIO.Parse produced it
    \* ---- upload ----
    upc,          \* "idle" | "cookies" | "upload" | "name" | "notes" | "type" | "returned" | "raised"
    activity,     \* the activity uploaded: [Name, Notes, Type]
    successes,    \* detailedImportResult.successes: sequence of internalId
    actid,
    followups,    \* follow-up requests issued: sequence of [call, id, value, verified]
    raisedExc     \* the exception UploadActivity ended with

sessVars == <<now, sessionCache, remoteAuth, nextSid, pc, op, acct, jar, reqs, loginStatus, outcome>>
resVars == <<hierarchy, act_type, rpc, passes, resolved>>
listVars == <<lpc, listExc, exhaustive, page, activities, exclusions, pageReqs, resolveCalls, seen, lastPage>>
detVars == <<dpc, Stats, Laps, listingStats, parsedLaps>>
upVars == <<upc, activity, successes, actid, followups, raisedExc>>
vars == <<sessVars, resVars, listVars, detVars, upVars>>
nonSessVars == <<resVars, listVars, detVars, upVars>>
nonResVars == <<sessVars, listVars, detVars, upVars>>
nonListVars == <<sessVars, resVars, detVars, upVars>>
nonDetVars == <<sessVars, resVars, listVars, upVars>>
nonUpVars == <<sessVars, resVars, listVars, detVars>>

(***************************************************************************)
(*                           SESSION MANAGER                               *)
(***************************************************************************)

Accounts == {"a1", "a2"}
Procs == {"p1", "p2"}

\* SessionCache(lifetime=timedelta(minutes=30), freshen_on_get=True)
lifetime == 30
freshen_on_get == TRUE

\* Bounds of the session model.
MaxTime == 62
MaxSessions == 2
TickSteps == {15, 16}
StatusCodes == {302, 499, 500, 599, 600}
Usernames == {"", "user"}

NoOutcome == [kind |-> "none", value |-> 0, block |-> FALSE, intervention |-> FALSE, how |-> "", age |-> -1]
Cookies(v, how, age) == [kind |-> "cookies", value |-> v, block |-> FALSE, intervention |-> FALSE, how |-> how, age |-> age]
\* APIException(message, block=False, user_exception=None)
APIException(msg, block, intervention) ==
    [kind |-> "APIException", value |-> 0, block |-> block, intervention |-> intervention, how |-> msg, age |-> -1]
Authorized(v) == [kind |-> "authorized", value |-> v, block |-> FALSE, intervention |-> FALSE, how |-> "login", age |-> -1]

\* SessionCacheRecord.Expired(): the record is older than the lifetime.
Expired(rec, t) == rec.timestamp + lifetime < t

\* SessionCache.Get(pk): <<value or 0 when absent or expired, the cache afterwards>>.
\* With freshen_on_get a successful read restarts the record's lifetime.
SessionCache_Get(c, pk, t) ==
    IF pk \notin DOMAIN c THEN <<0, c>>
    ELSE IF Expired(c[pk], t) THEN <<0, c>>
    ELSE <<c[pk].value,
           IF freshen_on_get THEN [c EXCEPT ![pk].timestamp = t] ELSE c>>

\* SessionCache.Set(pk, value): a whole record replaces the entry at once.
\* (setAt is not program state: it keeps the time of the Set for the properties.)
SessionCache_Set(c, pk, value, t) ==
    (pk :> [value |-> value, timestamp |-> t, setAt |-> t]) @@ c

\* Age of the entry a read finds (-1: no entry).
AgeOf(c, pk, t) == IF pk \in DOMAIN c THEN t - c[pk].timestamp ELSE -1

InitSession ==
    /\ now = 0
    /\ sessionCache = <<>>
    /\ remoteAuth = <<>>
    /\ nextSid = 1
    /\ pc = [p \in Procs |-> "idle"]
    /\ op = [p \in Procs |-> "get"]
    /\ acct = [p \in Procs |-> "a1"]
    /\ jar = [p \in Procs |-> 0]
    /\ reqs = [p \in Procs |-> <<>>]
    /\ loginStatus = [p \in Procs |-> 0]
    /\ outcome = [p \in Procs |-> NoOutcome]

\* d minutes pass.
Tick(d) ==
    /\ now + d <= MaxTime
    /\ now' = now + d
    /\ UNCHANGED <<sessionCache, remoteAuth, nextSid, pc, op, acct, jar, reqs, loginStatus, outcome>>
    /\ UNCHANGED nonSessVars

\* A caller enters _get_cookies(record=serviceRecord).
CallGetCookies(p) ==
    /\ pc[p] = "idle"
    /\ \E a \in Accounts : acct' = [acct EXCEPT ![p] = a]
    /\ op' = [op EXCEPT ![p] = "get"]
    /\ pc' = [pc EXCEPT ![p] = "get"]
    /\ jar' = [jar EXCEPT ![p] = 0]
    /\ reqs' = [reqs EXCEPT ![p] = <<>>]
    /\ loginStatus' = [loginStatus EXCEPT ![p] = 0]
    /\ outcome' = [outcome EXCEPT ![p] = NoOutcome]
    /\ UNCHANGED <<now, sessionCache, remoteAuth, nextSid>>
    /\ UNCHANGED nonSessVars

\* A caller enters Authorize(email, password): _get_cookies(email=, password=).
CallAuthorize(p) ==
    /\ pc[p] = "idle"
    /\ \E a \in Accounts : acct' = [acct EXCEPT ![p] = a]
    /\ op' = [op EXCEPT ![p] = "auth"]
    /\ pc' = [pc EXCEPT ![p] = "pre"]
    /\ jar' = [jar EXCEPT ![p] = 0]
    /\ reqs' = [reqs EXCEPT ![p] = <<>>]
    /\ loginStatus' = [loginStatus EXCEPT ![p] = 0]
    /\ outcome' = [outcome EXCEPT ![p] = NoOutcome]
    /\ UNCHANGED <<now, sessionCache, remoteAuth, nextSid>>
    /\ UNCHANGED nonSessVars

\* A slip: the cached value is ignored and every read logs in again.
GetCookiesCached_NoReturn(p) ==
    /\ pc[p] = "get"
    /\ sessionCache' = SessionCache_Get(sessionCache, acct[p], now)[2]
    /\ pc' = [pc EXCEPT ![p] = "pre"]
    /\ UNCHANGED <<now, remoteAuth, nextSid, op, acct, jar, reqs, loginStatus, outcome>>
    /\ UNCHANGED nonSessVars

\* _get_cookies, `if record:` branch: cached = Get(ExternalID); if cached: return cached;
\* otherwise the credentials are decrypted and the login follows.
GetCookiesCached(p) ==
    /\ pc[p] = "get"
    /\ LET got == SessionCache_Get(sessionCache, acct[p], now)
           cached == got[1]
       IN /\ sessionCache' = got[2]
          /\ IF cached # 0
             THEN /\ outcome' = [outcome EXCEPT ![p] = Cookies(cached, "hit", AgeOf(sessionCache, acct[p], now))]
                  /\ pc' = [pc EXCEPT ![p] = "idle"]
             ELSE /\ outcome' = [outcome EXCEPT ![p].age = AgeOf(sessionCache, acct[p], now)]
                  /\ pc' = [pc EXCEPT ![p] = "pre"]
    /\ UNCHANGED <<now, remoteAuth, nextSid, op, acct, jar, reqs, loginStatus>>
    /\ UNCHANGED nonSessVars

\* preResp = requests.get(".../signin"): the sign-in page issues a fresh session cookie.
GetCookiesPreResp(p) ==
    /\ pc[p] = "pre"
    /\ nextSid <= MaxSessions
    /\ jar' = [jar EXCEPT ![p] = nextSid]
    /\ nextSid' = nextSid + 1
    /\ reqs' = [reqs EXCEPT ![p] = Append(@, "GET signin")]
    /\ pc' = [pc EXCEPT ![p] = "post"]
    /\ UNCHANGED <<now, sessionCache, remoteAuth, op, acct, loginStatus, outcome>>
    /\ UNCHANGED nonSessVars

\* A slip: the cookies are cached before the status of the login is looked at.
GetCookiesLogin_SetFirst(p) ==
    /\ pc[p] = "post"
    /\ reqs' = [reqs EXCEPT ![p] = Append(@, "POST signin")]
    /\ \E status \in StatusCodes :
        /\ loginStatus' = [loginStatus EXCEPT ![p] = status]
        /\ sessionCache' = IF op[p] = "get"
                           THEN SessionCache_Set(sessionCache, acct[p], jar[p], now)
                           ELSE sessionCache
        /\ IF status >= 500 /\ status < 600
           THEN /\ outcome' = [outcome EXCEPT ![p] = APIException("Remote API failure", FALSE, FALSE)]
                /\ pc' = [pc EXCEPT ![p] = "idle"]
                /\ UNCHANGED remoteAuth
           ELSE IF status # 302
           THEN /\ outcome' = [outcome EXCEPT ![p] = APIException("Invalid login", TRUE, TRUE)]
                /\ pc' = [pc EXCEPT ![p] = "idle"]
                /\ UNCHANGED remoteAuth
           ELSE /\ remoteAuth' = (jar[p] :> [account |-> acct[p], op |-> op[p]]) @@ remoteAuth
                /\ IF op[p] = "get"
                   THEN /\ outcome' = [outcome EXCEPT ![p] = Cookies(jar[p], "login", outcome[p].age)]
                        /\ pc' = [pc EXCEPT ![p] = "idle"]
                   ELSE /\ pc' = [pc EXCEPT ![p] = "user"]
                        /\ UNCHANGED outcome
    /\ UNCHANGED <<now, nextSid, op, acct, jar>>
    /\ UNCHANGED nonSessVars

\* A slip: only the 5xx test is kept, any other answer counts as a login.
GetCookiesLogin_No302Test(p) ==
    /\ pc[p] = "post"
    /\ reqs' = [reqs EXCEPT ![p] = Append(@, "POST signin")]
    /\ \E status \in StatusCodes :
        /\ loginStatus' = [loginStatus EXCEPT ![p] = status]
        /\ IF status >= 500 /\ status < 600
           THEN /\ outcome' = [outcome EXCEPT ![p] = APIException("Remote API failure", FALSE, FALSE)]
                /\ pc' = [pc EXCEPT ![p] = "idle"]
                /\ UNCHANGED <<remoteAuth, sessionCache>>
           ELSE /\ remoteAuth' = IF status = 302 THEN (jar[p] :> [account |-> acct[p], op |-> op[p]]) @@ remoteAuth ELSE remoteAuth
                /\ IF op[p] = "get"
                   THEN /\ sessionCache' = SessionCache_Set(sessionCache, acct[p], jar[p], now)
                        /\ outcome' = [outcome EXCEPT ![p] = Cookies(jar[p], "login", outcome[p].age)]
                        /\ pc' = [pc EXCEPT ![p] = "idle"]
                   ELSE /\ pc' = [pc EXCEPT ![p] = "user"]
                        /\ UNCHANGED <<outcome, sessionCache>>
    /\ UNCHANGED <<now, nextSid, op, acct, jar>>
    /\ UNCHANGED nonSessVars

\* resp = requests.post(".../signin", cookies=preResp.cookies) and what follows it:
\* 5xx raises the plain APIException, any other non-302 raises the blocking one,
\* a 302 caches preResp.cookies (when called with a record) and returns them.
GetCookiesLogin(p) ==
    /\ pc[p] = "post"
    /\ reqs' = [reqs EXCEPT ![p] = Append(@, "POST signin")]
    /\ \E status \in StatusCodes :
        /\ loginStatus' = [loginStatus EXCEPT ![p] = status]
        /\ IF status >= 500 /\ status < 600
           THEN /\ outcome' = [outcome EXCEPT ![p] = APIException("Remote API failure", FALSE, FALSE)]
                /\ pc' = [pc EXCEPT ![p] = "idle"]
                /\ UNCHANGED <<remoteAuth, sessionCache>>
           ELSE IF status # 302
           THEN /\ outcome' = [outcome EXCEPT ![p] = APIException("Invalid login", TRUE, TRUE)]
                /\ pc' = [pc EXCEPT ![p] = "idle"]
                /\ UNCHANGED <<remoteAuth, sessionCache>>
           ELSE \* the remote now holds the session cookie as logged in
                /\ remoteAuth' = (jar[p] :> [account |-> acct[p], op |-> op[p]]) @@ remoteAuth
                /\ IF op[p] = "get"
                   THEN /\ sessionCache' = SessionCache_Set(sessionCache, acct[p], jar[p], now)
                        /\ outcome' = [outcome EXCEPT ![p] = Cookies(jar[p], "login", outcome[p].age)]
                        /\ pc' = [pc EXCEPT ![p] = "idle"]
                   ELSE /\ pc' = [pc EXCEPT ![p] = "user"]
                        /\ UNCHANGED <<outcome, sessionCache>>
    /\ UNCHANGED <<now, nextSid, op, acct, jar>>
    /\ UNCHANGED nonSessVars

\* Authorize after _get_cookies returned: the username request and its check.
AuthorizeUsername(p) ==
    /\ pc[p] = "user"
    /\ reqs' = [reqs EXCEPT ![p] = Append(@, "GET username")]
    /\ \E username \in Usernames :
        outcome' = [outcome EXCEPT ![p] =
                      IF username = ""
                      THEN APIException("Unable to retrieve username", TRUE, TRUE)
                      ELSE Authorized(jar[p])]
    /\ pc' = [pc EXCEPT ![p] = "idle"]
    /\ UNCHANGED <<now, sessionCache, remoteAuth, nextSid, op, acct, jar, loginStatus>>
    /\ UNCHANGED nonSessVars

(***************************************************************************)
(*                       ACTIVITY-TYPE RESOLUTION                          *)
(***************************************************************************)

\* GarminConnectService._activityMappings
activityMappings ==
    ("running" :> "Running") @@ ("cycling" :> "Cycling") @@
    ("mountain_biking" :> "MountainBiking") @@ ("walking" :> "Walking") @@
    ("hiking" :> "Hiking") @@ ("resort_skiing_snowboarding" :> "DownhillSkiing") @@
    ("cross_country_skiing" :> "CrossCountrySkiing") @@
    ("backcountry_skiing_snowboarding" :> "CrossCountrySkiing") @@
    ("skating" :> "Skating") @@ ("swimming" :> "Swimming") @@
    ("rowing" :> "Rowing") @@ ("elliptical" :> "Elliptical") @@
    ("all" :> "Other")

\* Bound: the number of entries of the activity hierarchy the remote serves.
MaxEntries == 3

\* The remote keys of the model: three keys with no direct mapping, the mapped
\* key "running", and a parent key that has no entry of its own.
EntryKeys == {"trail_running", "street_running", "yoga"}
EntryParents == {"running", "trail_running", "street_running", "uncategorized"}
RawKeys == {"running", "trail_running", "street_running", "yoga"}
Entries == [key : EntryKeys, parent : EntryParents]
Hierarchies == UNION {[1..n -> Entries] : n \in 0..MaxEntries}

\* [x for x in self._activityHierarchy if x["key"] == act_type]
EntriesOf(h, k) == SelectSeq(h, LAMBDA x : x.key = k)

InitResolve ==
    /\ act_type = ""
    /\ rpc = "idle"
    /\ passes = 0
    /\ resolved = ""

\* __init__ has fetched the hierarchy; a caller enters _resolveActivityType(act_type).
CallResolve ==
    /\ rpc \in {"idle", "returned", "raised"}
    /\ \E k \in RawKeys : act_type' = k
    /\ rpc' = "loop"
    /\ passes' = 0
    /\ resolved' = ""
    /\ UNCHANGED hierarchy
    /\ UNCHANGED nonResVars

\* One pass of `while act_type not in self._activityMappings`: the loop ends with
\* the mapped type, or its body replaces act_type by the parent key of the first
\* entry for it, or raises ValueError when there is no entry (the IndexError).
ResolveLoop ==
    /\ rpc = "loop"
    /\ passes' = (passes + 1) % 2
    /\ IF act_type \in DOMAIN activityMappings
       THEN /\ resolved' = activityMappings[act_type]
            /\ rpc' = "returned"
            /\ UNCHANGED act_type
       ELSE IF EntriesOf(hierarchy, act_type) = <<>>
       THEN /\ rpc' = "raised"
            /\ UNCHANGED <<act_type, resolved>>
       ELSE /\ act_type' = EntriesOf(hierarchy, act_type)[1].parent
            /\ UNCHANGED <<rpc, resolved>>
    /\ UNCHANGED hierarchy
    /\ UNCHANGED nonResVars

\* _resolveActivityType as a function of the hierarchy and the key.  The walk is
\* deterministic, so once it has made Len(h) steps and stands on another unmapped
\* key that has an entry, it has been on some key twice and never ends.
RECURSIVE ResolveWalk(_, _, _)
ResolveWalk(h, k, fuel) ==
    IF k \in DOMAIN activityMappings
    THEN [status |-> "ok", type |-> activityMappings[k]]
    ELSE IF EntriesOf(h, k) = <<>>
    THEN [status |-> "ValueError", type |-> ""]
    ELSE IF fuel = 0
    THEN [status |-> "diverges", type |-> ""]
    ELSE ResolveWalk(h, EntriesOf(h, k)[1].parent, fuel - 1)

resolveActivityType(h, k) == ResolveWalk(h, k, Len(h))

(***************************************************************************)
(*                     LISTING: DownloadActivityList                       *)
(***************************************************************************)

\* pageSz = 50
pageSz == 50

\* Bounds of the listing model: the page requests one listing may be seen to
\* issue (IterationCap + 1 of them), and the raw records the remote serves to
\* one listing.
IterationCap == 3
MaxListPages == IterationCap + 1
MaxRecords == 3

\* What the first step of every operation, _get_cookies(record=...), may do.
CookieOutcomes == {"cookies", "APIException"}

\* Two hierarchies the adapter may have loaded: one where trail_running is a
\* child of running, one where trail_running and street_running are each
\* other's parent.  Neither has an entry for yoga.
ListHierarchies ==
    { <<[key |-> "trail_running", parent |-> "running"]>>,
      <<[key |-> "trail_running", parent |-> "street_running"],
        [key |-> "street_running", parent |-> "trail_running"]>> }

\* The raw records of the model, by the fields the loop branches or fails on:
\* "sumDistance" in act, act["activityName"] present, act["activityType"]["key"].
RecordKinds ==
    { [sumDistance |-> FALSE, activityName |-> TRUE, activityType |-> "yoga"],
      [sumDistance |-> TRUE, activityName |-> TRUE, activityType |-> "running"],
      [sumDistance |-> TRUE, activityName |-> TRUE, activityType |-> "trail_running"],
      [sumDistance |-> TRUE, activityName |-> TRUE, activityType |-> "yoga"],
      [sumDistance |-> TRUE, activityName |-> FALSE, activityType |-> "running"] }

RecordSeqs(n) == UNION {[1..m -> RecordKinds] : m \in 0..n}

\* The remote numbers its activities; the model numbers them in the order served.
WithIds(recs, base) ==
    [i \in 1..Len(recs) |->
        [activityId |-> base + i, sumDistance |-> recs[i].sumDistance,
         activityName |-> recs[i].activityName, activityType |-> recs[i].activityType]]

\* res.json()["results"] of one page request.
PageResponses(n) ==
    {[hasActivities |-> FALSE, activities |-> <<>>, totalPages |-> 0]} \cup
    {[hasActivities |-> TRUE, activities |-> a, totalPages |-> t] :
        a \in RecordSeqs(n), t \in 0..MaxListPages}

\* The locals of the loop: the two result lists, plus what the model records.
Locals(acts, excl, calls, reached, status) ==
    [activities |-> acts, exclusions |-> excl, resolveCalls |-> calls,
     seen |-> reached, status |-> status]

\* A slip: the record without a distance is excluded but the loop body goes on.
ForBody_NoContinue(h, act, L) ==
    LET reached == Append(L.seen, act)
        excl == IF ~act.sumDistance
                THEN Append(L.exclusions, [reason |-> "No distance", activityId |-> act.activityId])
                ELSE L.exclusions
    IN IF ~act.activityName
       THEN Locals(L.activities, excl, L.resolveCalls, reached, "KeyError")
       ELSE LET r == resolveActivityType(h, act.activityType)
                calls == L.resolveCalls \cup {act.activityId}
            IN IF r.status = "ok"
               THEN Locals(Append(L.activities, [Type |-> r.type, ActivityID |-> act.activityId]),
                           excl, calls, reached, "ok")
               ELSE Locals(L.activities, excl, calls, reached, r.status)

\* A slip: an error of the record is caught and the record excluded.
ForBody_ExcludeOnError(h, act, L) ==
    LET reached == Append(L.seen, act)
        excluded(reason) == Append(L.exclusions, [reason |-> reason, activityId |-> act.activityId])
    IN IF ~act.sumDistance
       THEN Locals(L.activities, excluded("No distance"), L.resolveCalls, reached, "ok")
       ELSE IF ~act.activityName
       THEN Locals(L.activities, excluded("KeyError"), L.resolveCalls, reached, "ok")
       ELSE LET r == resolveActivityType(h, act.activityType)
                calls == L.resolveCalls \cup {act.activityId}
            IN IF r.status = "ok"
               THEN Locals(Append(L.activities, [Type |-> r.type, ActivityID |-> act.activityId]),
                           L.exclusions, calls, reached, "ok")
               ELSE IF r.status = "ValueError"
               THEN Locals(L.activities, excluded("ValueError"), calls, reached, "ok")
               ELSE Locals(L.activities, L.exclusions, calls, reached, r.status)

\* The body of `for act in res["activities"]` for one record: no sumDistance:
\* an exclusion, and continue; a missing mandatory field: KeyError; then the type
\* is resolved (ValueError, or no return at all, or the type) and the activity
\* is appended.
ForBody(h, act, L) ==
    LET reached == Append(L.seen, act)
    IN IF ~act.sumDistance
       THEN Locals(L.activities,
                   Append(L.exclusions, [reason |-> "No distance", activityId |-> act.activityId]),
                   L.resolveCalls, reached, "ok")
       ELSE IF ~act.activityName
       THEN Locals(L.activities, L.exclusions, L.resolveCalls, reached, "KeyError")
       ELSE LET r == resolveActivityType(h, act.activityType)
                calls == L.resolveCalls \cup {act.activityId}
            IN IF r.status = "ok"
               THEN Locals(Append(L.activities, [Type |-> r.type, ActivityID |-> act.activityId]),
                           L.exclusions, calls, reached, "ok")
               ELSE Locals(L.activities, L.exclusions, calls, reached, r.status)

\* The for loop over one page: it stops at the first record that raises or hangs.
RECURSIVE ForLoop(_, _, _, _)
ForLoop(h, recs, i, L) ==
    IF i > Len(recs) \/ L.status # "ok"
    THEN L
    ELSE ForLoop(h, recs, i + 1, ForBody(h, recs[i], L))

InitList ==
    /\ lpc = "idle"
    /\ listExc = ""
    /\ exhaustive = FALSE
    /\ page = 0
    /\ activities = <<>>
    /\ exclusions = <<>>
    /\ pageReqs = <<>>
    /\ resolveCalls = {}
    /\ seen = <<>>
    /\ lastPage = [hasActivities |-> FALSE, totalPages |-> 0]

\* DownloadActivityList up to its loop: _get_cookies, which may raise, then
\* page = 1 and the two empty result lists.
ListStart ==
    /\ lpc = "idle"
    /\ \E e \in BOOLEAN : exhaustive' = e
    /\ \E c \in CookieOutcomes :
        IF c = "cookies"
        THEN /\ lpc' = "fetch"
             /\ page' = 1
             /\ UNCHANGED listExc
        ELSE /\ lpc' = "raised"
             /\ listExc' = c
             /\ UNCHANGED page
    /\ activities' = <<>>
    /\ exclusions' = <<>>
    /\ UNCHANGED <<pageReqs, resolveCalls, seen, lastPage>>
    /\ UNCHANGED nonListVars

\* `if not exhaustive or int(res["search"]["totalPages"]) == page: break`
PageDone(exh, totalPages, pg) == ~exh \/ totalPages = pg

\* One pass of `while True`: the page request at start = (page - 1) * pageSz, the
\* break on a page without "activities", the for loop over the page's records,
\* and the break or page += 1 that ends the pass.
FetchPage ==
    /\ lpc = "fetch"
    /\ page <= MaxListPages
    /\ pageReqs' = Append(pageReqs, [start |-> (page - 1) * pageSz, limit |-> pageSz])
    /\ \E res \in PageResponses(MaxRecords - Len(seen)) :
        /\ lastPage' = [hasActivities |-> res.hasActivities, totalPages |-> res.totalPages]
        /\ IF ~res.hasActivities
           THEN /\ lpc' = "returned"
                /\ UNCHANGED <<listExc, page, activities, exclusions, resolveCalls, seen>>
           ELSE LET L == ForLoop(hierarchy, WithIds(res.activities, Len(seen)), 1,
                                 Locals(activities, exclusions, resolveCalls, seen, "ok"))
                IN /\ activities' = L.activities
                   /\ exclusions' = L.exclusions
                   /\ resolveCalls' = L.resolveCalls
                   /\ seen' = L.seen
                   /\ IF L.status = "diverges"
                      THEN /\ lpc' = "hung"
                           /\ UNCHANGED <<listExc, page>>
                      ELSE IF L.status # "ok"
                      THEN /\ lpc' = "raised"
                           /\ listExc' = L.status
                           /\ UNCHANGED page
                      ELSE IF PageDone(exhaustive, res.totalPages, page)
                      THEN /\ lpc' = "returned"
                           /\ UNCHANGED <<listExc, page>>
                      ELSE /\ page' = page + 1
                           /\ UNCHANGED <<lpc, listExc>>
    /\ UNCHANGED exhaustive
    /\ UNCHANGED nonListVars

(***************************************************************************)
(*                     DETAIL FETCH: DownloadActivity                      *)
(***************************************************************************)

\* Bounds of the detail model: the values a statistic may take (0: unset, the
\* None of ActivityStatistic) and the laps a parsed detail document may hold.
MaxStat == 2
MaxLaps == 2

StatKeys == {"Distance", "HR"}
StatsValues == [StatKeys -> 0..MaxStat]
\* The listing always sets Distance.
ListingStatsValues == {s \in StatsValues : s["Distance"] # 0}
LapSeqs == UNION {[1..n -> StatsValues] : n \in 0..MaxLaps}
ParseResults == {"ValueError", "parsed"}

\* ActivityStatistics.update(other): every statistic that is set in `other`
\* overwrites the one of `self`; the others are kept.
StatsUpdate(self, other) ==
    [k \in StatKeys |-> IF other[k] # 0 THEN other[k] ELSE self[k]]

InitDetail ==
    /\ dpc = "idle"
    /\ Stats = [k \in StatKeys |-> 0]
    /\ Laps = <<>>
    /\ listingStats = [k \in StatKeys |-> 0]
    /\ parsedLaps = <<>>

\* DownloadActivity is entered with an activity of the listing (its Stats set by
\* the listing, no laps) and calls _get_cookies, which may raise.
DetailStart ==
    /\ dpc = "idle"
    /\ \E s \in ListingStatsValues :
        /\ Stats' = s
        /\ listingStats' = s
    /\ Laps' = <<>>
    /\ parsedLaps' = <<>>
    /\ \E c \in CookieOutcomes :
        dpc' = IF c = "cookies" THEN "fetch" ELSE "raised"
    /\ UNCHANGED nonDetVars

\* A slip: the lap takes the listing's stats but the activity keeps its own object.
Reconcile_NoAssign(stats, laps) ==
    IF Len(laps) = 1
    THEN [Stats |-> stats, Laps |-> <<StatsUpdate(laps[1], stats)>>]
    ELSE [Stats |-> stats, Laps |-> laps]

\* if len(activity.Laps) == 1:
\*     activity.Laps[0].Stats.update(activity.Stats)
\*     activity.Stats = activity.Laps[0].Stats
Reconcile(stats, laps) ==
    IF Len(laps) = 1
    THEN LET lapStats == StatsUpdate(laps[1], stats)
         IN [Stats |-> lapStats, Laps |-> <<lapStats>>]
    ELSE [Stats |-> stats, Laps |-> laps]

\* The detail request, TCXIO.Parse into the activity (a ValueError becomes
\* APIExcludeActivity), and the reconciliation of a single lap.
DetailFetch ==
    /\ dpc = "fetch"
    /\ \E r \in ParseResults :
        IF r = "ValueError"
        THEN /\ dpc' = "raised"
             /\ UNCHANGED <<Stats, Laps, parsedLaps>>
        ELSE \E laps \in LapSeqs :
             /\ parsedLaps' = laps
             /\ Stats' = Reconcile(Stats, laps).Stats
             /\ Laps' = Reconcile(Stats, laps).Laps
             /\ dpc' = "returned"
    /\ UNCHANGED listingStats
    /\ UNCHANGED nonDetVars

(***************************************************************************)
(*                         UPLOAD: UploadActivity                          *)
(***************************************************************************)

\* GarminConnectService._reverseActivityMappings
reverseActivityMappings ==
    ("running" :> "Running") @@ ("cycling" :> "Cycling") @@
    ("mountain_biking" :> "MountainBiking") @@ ("walking" :> "Walking") @@
    ("hiking" :> "Hiking") @@ ("resort_skiing_snowboarding" :> "DownhillSkiing") @@
    ("cross_country_skiing" :> "CrossCountrySkiing") @@
    ("skating" :> "Skating") @@ ("swimming" :> "Swimming") @@
    ("rowing" :> "Rowing") @@ ("elliptical" :> "Elliptical") @@
    ("other" :> "Other")

\* Bound: the successes one upload response may list.
MaxSuccesses == 2

InternalIds == {11, 12}
SuccessLists == UNION {[1..n -> InternalIds] : n \in 0..MaxSuccesses}
\* Activities to upload: with and without a name, with and without notes, of a
\* type the upload encodes (Running), of one it does not (Hiking), and of one that
\* has no key in _reverseActivityMappings (Snowboarding).
UploadActivities ==
    [Name : {"", "Morning"}, Notes : {"", "Felt good"}, Type : {"Running", "Hiking", "Snowboarding"}]
\* What a follow-up call may answer: the value echoed, another value, no echo.
Echoes == {"same", "different", "missing"}

NoExc == [kind |-> "", message |-> ""]
Exc(kind, message) == [kind |-> kind, message |-> message]

\* [k for k, v in self._reverseActivityMappings.items() if v == activity.Type]
ReverseKeys(type) == {k \in DOMAIN reverseActivityMappings : reverseActivityMappings[k] = type}

InitUpload ==
    /\ upc = "idle"
    /\ activity = [Name |-> "", Notes |-> "", Type |-> "Running"]
    /\ successes = <<>>
    /\ actid = 0
    /\ followups = <<>>
    /\ raisedExc = NoExc

\* UploadActivity up to the upload request: EnsureTZ, FITIO.Dump, _get_cookies.
UploadStart ==
    /\ upc = "idle"
    /\ \E a \in UploadActivities : activity' = a
    /\ \E c \in CookieOutcomes :
        IF c = "cookies"
        THEN /\ upc' = "upload"
             /\ UNCHANGED raisedExc
        ELSE /\ upc' = "raised"
             /\ raisedExc' = Exc("APIException", "login")
    /\ UNCHANGED <<successes, actid, followups>>
    /\ UNCHANGED nonUpVars

\* A slip: only an empty list of successes is refused.
UploadFile_FirstOfMany ==
    /\ upc = "upload"
    /\ \E s \in SuccessLists :
        /\ successes' = s
        /\ IF Len(s) = 0
           THEN /\ upc' = "raised"
                /\ raisedExc' = Exc("APIException", "Unable to upload activity")
                /\ UNCHANGED actid
           ELSE /\ actid' = s[1]
                /\ upc' = "name"
                /\ UNCHANGED raisedExc
    /\ UNCHANGED <<activity, followups>>
    /\ UNCHANGED nonUpVars

\* The upload request and the test of its detailedImportResult: no success, or
\* more than one, raises APIException; the single success gives actid.
UploadFile ==
    /\ upc = "upload"
    /\ \E s \in SuccessLists :
        /\ successes' = s
        /\ IF Len(s) = 0
           THEN /\ upc' = "raised"
                /\ raisedExc' = Exc("APIException", "Unable to upload activity")
                /\ UNCHANGED actid
           ELSE IF Len(s) > 1
           THEN /\ upc' = "raised"
                /\ raisedExc' = Exc("APIException", "Uploaded succeeded, resulting in too many activities")
                /\ UNCHANGED actid
           ELSE /\ actid' = s[1]
                /\ upc' = "name"
                /\ UNCHANGED raisedExc
    /\ UNCHANGED <<activity, followups>>
    /\ UNCHANGED nonUpVars

\* A slip: the warning of the rename is noted but the upload goes on.
SetName_GoesOn ==
    /\ upc = "name"
    /\ IF activity.Name # ""
       THEN \E echo \in Echoes :
            /\ followups' = Append(followups, [call |-> "name", id |-> actid,
                                               value |-> activity.Name, verified |-> echo = "same"])
            /\ upc' = "notes"
            /\ raisedExc' = IF echo # "same" THEN Exc("APIWarning", "Unable to set activity name") ELSE raisedExc
       ELSE /\ upc' = "notes"
            /\ UNCHANGED <<followups, raisedExc>>
    /\ UNCHANGED <<activity, successes, actid>>
    /\ UNCHANGED nonUpVars

\* if activity.Name: the rename request for actid; an answer without "display", or
\* with another value, raises APIWarning.
SetName ==
    /\ upc = "name"
    /\ IF activity.Name # ""
       THEN \E echo \in Echoes :
            /\ followups' = Append(followups, [call |-> "name", id |-> actid,
                                               value |-> activity.Name, verified |-> echo = "same"])
            /\ IF echo # "same"
               THEN /\ upc' = "raised"
                    /\ raisedExc' = Exc("APIWarning", "Unable to set activity name")
               ELSE /\ upc' = "notes"
                    /\ UNCHANGED raisedExc
       ELSE /\ upc' = "notes"
            /\ UNCHANGED <<followups, raisedExc>>
    /\ UNCHANGED <<activity, successes, actid>>
    /\ UNCHANGED nonUpVars

\* if activity.Notes: the description request for actid, verified the same way.
SetNotes ==
    /\ upc = "notes"
    /\ IF activity.Notes # ""
       THEN \E echo \in Echoes :
            /\ followups' = Append(followups, [call |-> "description", id |-> actid,
                                               value |-> activity.Notes, verified |-> echo = "same"])
            /\ IF echo # "same"
               THEN /\ upc' = "raised"
                    /\ raisedExc' = Exc("APIWarning", "Unable to set activity notes")
               ELSE /\ upc' = "type"
                    /\ UNCHANGED raisedExc
       ELSE /\ upc' = "type"
            /\ UNCHANGED <<followups, raisedExc>>
    /\ UNCHANGED <<activity, successes, actid>>
    /\ UNCHANGED nonUpVars

\* if activity.Type not in [Running, Cycling, Other]: the key of the type in
\* _reverseActivityMappings (APIWarning when it has none), the type request for
\* actid, and the check of the key echoed.  Then the function ends.
SetType ==
    /\ upc = "type"
    /\ IF activity.Type \notin {"Running", "Cycling", "Other"}
       THEN IF ReverseKeys(activity.Type) = {}
            THEN /\ upc' = "raised"
                 /\ raisedExc' = Exc("APIWarning", "GarminConnect does not support activity type")
                 /\ UNCHANGED followups
            ELSE \E acttype \in ReverseKeys(activity.Type) : \E echo \in Echoes :
                 /\ followups' = Append(followups, [call |-> "type", id |-> actid,
                                                    value |-> acttype, verified |-> echo = "same"])
                 /\ IF echo # "same"
                    THEN /\ upc' = "raised"
                         /\ raisedExc' = Exc("APIWarning", "Unable to set activity type")
                    ELSE /\ upc' = "returned"
                         /\ UNCHANGED raisedExc
       ELSE /\ upc' = "returned"
            /\ UNCHANGED <<followups, raisedExc>>
    /\ UNCHANGED <<activity, successes, actid>>
    /\ UNCHANGED nonUpVars

(***************************************************************************)
(*                            SPECIFICATIONS                               *)
(***************************************************************************)

\* The state after construction: an empty session cache, no call in progress.
InitIdle == InitSession /\ InitResolve /\ InitList /\ InitDetail /\ InitUpload

InitNoHierarchy == InitIdle /\ hierarchy = <<>>

\* The session manager under a fine clock: one caller, two accounts, time
\* passing in steps that land before, on and after the lifetime of an entry.
ClockNext ==
    \/ \E d \in TickSteps : Tick(d)
    \/ CallGetCookies("p1")
    \/ CallAuthorize("p1")
    \/ GetCookiesCached("p1")
    \/ GetCookiesPreResp("p1")
    \/ GetCookiesLogin("p1")
    \/ AuthorizeUsername("p1")

SpecSessionClock == InitNoHierarchy /\ [][ClockNext]_vars

\* The session manager under concurrency: two callers interleaved at every
\* remote request, two accounts, time passing in steps that expire every entry.
RaceNext ==
    \/ Tick(lifetime + 1)
    \/ \E p \in Procs : CallGetCookies(p)
    \/ \E p \in Procs : CallAuthorize(p)
    \/ \E p \in Procs : GetCookiesCached(p)
    \/ \E p \in Procs : GetCookiesPreResp(p)
    \/ \E p \in Procs : GetCookiesLogin(p)
    \/ \E p \in Procs : AuthorizeUsername(p)

SpecSessionRace == InitNoHierarchy /\ [][RaceNext]_vars

\* Type resolution on every hierarchy of up to MaxEntries entries.
ResolveNext == CallResolve \/ ResolveLoop

InitSpecResolve == InitIdle /\ hierarchy \in Hierarchies

\* The loop is sequential code: a pass that can be made is made.
FairSpecResolve == InitSpecResolve /\ [][ResolveNext]_vars /\ WF_vars(ResolveLoop)

\* One listing against every sequence of page responses.
ListNext == ListStart \/ FetchPage

InitSpecList == InitIdle /\ hierarchy \in ListHierarchies

SpecList == InitSpecList /\ [][ListNext]_vars

\* One detail fetch.
DetailNext == DetailStart \/ DetailFetch

SpecDetail == InitNoHierarchy /\ [][DetailNext]_vars

\* One upload.
UploadNext == UploadStart \/ UploadFile \/ SetName \/ SetNotes \/ SetType

SpecUpload == InitNoHierarchy /\ [][UploadNext]_vars

(***************************************************************************)
(*                              PROPERTIES                                 *)
(***************************************************************************)

\* The step in which caller p's _get_cookies reads the session cache.
ReadStep(p) == pc[p] = "get" /\ pc'[p] # "get"

\* The step in which caller p's login request is answered.
LoginStep(p) == pc[p] = "post" /\ pc'[p] # "post"

\* C1: the session cache has a sliding 30-minute lifetime.  A read less than 30
\* minutes after the entry's last write or successful read returns the cached
\* cookies, issues no request and makes the entry expire 30 minutes after this
\* read; a read more than 30 minutes after it returns nothing, the caller goes on
\* to the login requests, and a login answered 302 caches the new cookies.
C1_SlidingTTL ==
    [][\A p \in Procs :
        /\ ReadStep(p) /\ acct[p] \in DOMAIN sessionCache =>
            LET e == sessionCache[acct[p]]
            IN /\ now - e.timestamp < lifetime =>
                    /\ pc'[p] = "idle"
                    /\ outcome'[p].kind = "cookies"
                    /\ outcome'[p].value = e.value
                    /\ reqs'[p] = <<>>
                    /\ nextSid' = nextSid
                    /\ sessionCache'[acct[p]].value = e.value
                    /\ sessionCache'[acct[p]].timestamp + lifetime = now + lifetime
               /\ now - e.timestamp > lifetime =>
                    /\ pc'[p] = "pre"
                    /\ outcome'[p].kind = "none"
        /\ LoginStep(p) /\ op[p] = "get" /\ loginStatus'[p] = 302 =>
            /\ reqs'[p] = <<"GET signin", "POST signin">>
            /\ outcome'[p].kind = "cookies"
            /\ outcome'[p].value = jar[p]
            /\ sessionCache'[acct[p]].value = jar[p]
            /\ sessionCache'[acct[p]].timestamp = now
    ]_vars

\* C1's case: a read hit an entry that was written more than 30 minutes before
\* (reads in between kept it alive), and the entry now expires 30 minutes after
\* that read.
C1_Witness ==
    \E p \in Procs :
        /\ pc[p] = "idle"
        /\ outcome[p].kind = "cookies"
        /\ outcome[p].how = "hit"
        /\ outcome[p].age > 0
        /\ acct[p] \in DOMAIN sessionCache
        /\ sessionCache[acct[p]].value = outcome[p].value
        /\ sessionCache[acct[p]].timestamp - sessionCache[acct[p]].setAt > lifetime

\* Caller p's login attempt succeeded: _get_cookies returned the cookies.
LoginSucceeded(p) ==
    \/ pc[p] = "user"
    \/ outcome[p].kind \in {"cookies", "authorized"}
    \/ outcome[p] = APIException("Unable to retrieve username", TRUE, TRUE)

\* C2: a login attempt succeeds only on status 302; a status of 500..599 fails
\* with the plain, retryable APIException (no block, no intervention flag), and
\* every other status fails with the blocking one, intervention_required set.
C2_LoginStatus ==
    \A p \in Procs :
        loginStatus[p] # 0 =>
            /\ LoginSucceeded(p) <=> loginStatus[p] = 302
            /\ (loginStatus[p] >= 500 /\ loginStatus[p] <= 599) =>
                    /\ outcome[p].kind = "APIException"
                    /\ ~outcome[p].block
                    /\ ~outcome[p].intervention
            /\ (loginStatus[p] # 302 /\ ~(loginStatus[p] >= 500 /\ loginStatus[p] <= 599)) =>
                    /\ outcome[p].kind = "APIException"
                    /\ outcome[p].block
                    /\ outcome[p].intervention

\* C2's case: one caller was answered 599 and holds the retryable error while
\* the other was answered 600 and holds the blocking one.
C2_Witness ==
    \E p, q \in Procs :
        /\ loginStatus[p] = 599 /\ outcome[p].kind = "APIException" /\ ~outcome[p].block
        /\ loginStatus[q] = 600 /\ outcome[q].kind = "APIException" /\ outcome[q].intervention

\* Every entry of the session cache holds cookies of a _get_cookies(record) login
\* for the entry's own account that was answered 302.
CacheEntriesLoggedIn ==
    \A a \in DOMAIN sessionCache :
        /\ DOMAIN sessionCache[a] = {"value", "timestamp", "setAt"}
        /\ sessionCache[a].value \in DOMAIN remoteAuth
        /\ remoteAuth[sessionCache[a].value] = [account |-> a, op |-> "get"]

\* Every caller that holds cookies holds cookies logged in for its account.
ReturnedCookiesLoggedIn ==
    \A p \in Procs :
        outcome[p].kind = "cookies" =>
            /\ outcome[p].value \in DOMAIN remoteAuth
            /\ remoteAuth[outcome[p].value].account = acct[p]

\* C10: under every interleaving of _get_cookies(record) and Authorize calls,
\* each cache entry is absent or the whole cookie set of a _get_cookies login
\* for that account that was answered 302; a login that fails leaves the cache
\* as it was; no step of an Authorize call changes the cache; every caller that
\* returns cookies returns a logged-in set.
C10_CacheIntegrity ==
    /\ [](CacheEntriesLoggedIn /\ ReturnedCookiesLoggedIn)
    /\ [][\A p \in Procs :
            /\ LoginStep(p) /\ loginStatus'[p] # 302 => sessionCache' = sessionCache
            /\ (op[p] = "auth" /\ pc[p] # "idle" /\ pc'[p] # pc[p]) => sessionCache' = sessionCache
            /\ (pc[p] = "idle" /\ pc'[p] = "pre") => sessionCache' = sessionCache
       ]_vars

\* C10's case: two callers missed for the same account, both logged in, each
\* returned its own cookies, and the cache holds one of the two sets.
C10_Witness ==
    \E p, q \in Procs :
        /\ p # q
        /\ acct[p] = acct[q]
        /\ outcome[p].kind = "cookies" /\ outcome[p].how = "login"
        /\ outcome[q].kind = "cookies" /\ outcome[q].how = "login"
        /\ outcome[p].value # outcome[q].value
        /\ outcome[p].age = outcome[q].age
        /\ acct[p] \in DOMAIN sessionCache
        /\ sessionCache[acct[p]].value = outcome[q].value

\* C3: every call of _resolveActivityType ends, with a type or with ValueError,
\* whatever the hierarchy.
C3_ResolveTerminates == (rpc = "loop") ~> (rpc \in {"returned", "raised"})

\* The position of the record with this activityId in a result list.
ActivitiesOf(id) == {j \in 1..Len(activities) : activities[j].ActivityID = id}
ExclusionsOf(id) == {j \in 1..Len(exclusions) : exclusions[j].activityId = id}

\* The for loop went past record i without an error.
Passed(i) == i < Len(seen) \/ lpc \in {"fetch", "returned"}

\* C4: a record without sumDistance gives exactly one exclusion ("No distance")
\* and no activity, and _resolveActivityType is not called for it; a record with
\* sumDistance that is processed without error gives exactly one activity and
\* no exclusion.
C4_NoDistanceExcluded ==
    \A i \in 1..Len(seen) :
        LET id == seen[i].activityId
        IN /\ ~seen[i].sumDistance =>
                /\ Cardinality(ExclusionsOf(id)) = 1
                /\ \A j \in ExclusionsOf(id) : exclusions[j].reason = "No distance"
                /\ ActivitiesOf(id) = {}
                /\ id \notin resolveCalls
           /\ (seen[i].sumDistance /\ Passed(i)) =>
                /\ Cardinality(ActivitiesOf(id)) = 1
                /\ ExclusionsOf(id) = {}
                /\ id \in resolveCalls

\* C4's case: a listing returned after a page that held a record without
\* sumDistance and a record with it.
C4_Witness ==
    /\ lpc = "returned"
    /\ \E i, j \in 1..Len(seen) : ~seen[i].sumDistance /\ seen[j].sumDistance
    /\ Len(exclusions) >= 1
    /\ Len(activities) >= 1

\* Processing the record raises: a mandatory field is missing, or its type key
\* leads to a key without an entry in the hierarchy.
Fails(r) ==
    /\ r.sumDistance
    /\ \/ ~r.activityName
       \/ resolveActivityType(hierarchy, r.activityType).status = "ValueError"

\* C5 as claimed: a record whose processing fails does not abort the listing,
\* and is reported in the exclusions.
C5_Original ==
    \A i \in 1..Len(seen) :
        Fails(seen[i]) =>
            /\ lpc \in {"fetch", "returned"}
            /\ ExclusionsOf(seen[i].activityId) # {}

\* C5 amended: a record whose processing fails ends the listing there with that
\* error (nothing is returned, no later record is processed), it is in neither
\* result list, and every exclusion is a record without sumDistance.
C5_FailureAborts ==
    /\ \A i \in 1..Len(seen) :
        Fails(seen[i]) =>
            /\ i = Len(seen)
            /\ lpc = "raised"
            /\ listExc = (IF ~seen[i].activityName THEN "KeyError" ELSE "ValueError")
            /\ ExclusionsOf(seen[i].activityId) = {}
            /\ ActivitiesOf(seen[i].activityId) = {}
    /\ \A j \in 1..Len(exclusions) :
        /\ exclusions[j].reason = "No distance"
        /\ \E i \in 1..Len(seen) :
            seen[i].activityId = exclusions[j].activityId /\ ~seen[i].sumDistance

\* C5's case: the listing was on its second page or later, with activities and
\* exclusions collected, when a type key could not be resolved.
C5_Witness ==
    /\ lpc = "raised"
    /\ listExc = "ValueError"
    /\ page >= 2
    /\ Len(activities) >= 1
    /\ Len(exclusions) >= 1
    /\ Fails(seen[Len(seen)])

\* C9: a listing stops within the iteration cap, whatever the pages say: it is
\* never about to request a page beyond the cap.
C9_StopsWithinCap == lpc = "fetch" => page <= IterationCap

\* The upload request has been answered.
UploadAnswered ==
    \/ upc \in {"name", "notes", "type", "returned"}
    \/ upc = "raised" /\ raisedExc.message # "login"

\* C6: after an upload answer with no success or several, the call has failed
\* with APIException and no follow-up request is issued; after an answer with
\* one success, every follow-up request carries that success's internalId.
C6_SingleSuccess ==
    /\ (UploadAnswered /\ Len(successes) # 1) =>
            /\ upc = "raised"
            /\ raisedExc.kind = "APIException"
            /\ followups = <<>>
    /\ \A i \in 1..Len(followups) :
            /\ UploadAnswered
            /\ Len(successes) = 1
            /\ followups[i].id = successes[1]

\* C6's case: an upload with one success went through its three follow-ups.
C6_Witness ==
    /\ upc = "returned"
    /\ Len(successes) = 1
    /\ Len(followups) = 3
    /\ successes[1] = 12

\* The follow-up calls this upload issued.
CallsIssued == {followups[i].call : i \in 1..Len(followups)}

\* C7 as claimed: when the rename could not be verified, the upload still sends
\* the notes (if set) and the type correction (if the type needs one) before it
\* ends; when the notes could not be verified, it still sends the type correction.
C7_Original ==
    upc \in {"returned", "raised"} =>
        \A i \in 1..Len(followups) :
            ~followups[i].verified =>
                /\ (followups[i].call = "name" /\ activity.Notes # "") =>
                        "description" \in CallsIssued
                /\ (followups[i].call \in {"name", "description"}
                        /\ activity.Type \notin {"Running", "Cycling", "Other"}
                        /\ ReverseKeys(activity.Type) # {}) =>
                        "type" \in CallsIssued

\* The warning UploadActivity raises when this follow-up is not verified.
WarningOf(call) ==
    IF call = "name" THEN Exc("APIWarning", "Unable to set activity name")
    ELSE IF call = "description" THEN Exc("APIWarning", "Unable to set activity notes")
    ELSE Exc("APIWarning", "Unable to set activity type")

\* C7 amended: a follow-up that cannot be verified ends the upload there with the
\* APIWarning of that step, which is not the fatal APIException: it is the last
\* request of the upload, and no later step is performed.
C7_WarningEndsUpload ==
    \A i \in 1..Len(followups) :
        ~followups[i].verified =>
            /\ i = Len(followups)
            /\ upc = "raised"
            /\ raisedExc = WarningOf(followups[i].call)

\* C7's case: the rename of an activity with notes and a type to correct could
\* not be verified, and the upload ended with only the rename sent.
C7_Witness ==
    /\ upc = "raised"
    /\ raisedExc = Exc("APIWarning", "Unable to set activity name")
    /\ activity.Notes # ""
    /\ activity.Type = "Hiking"
    /\ CallsIssued = {"name"}

\* C8: after DownloadActivity returned with exactly one lap parsed, the
\* activity's Stats and the lap's are the same, and every statistic the listing
\* set has the listing's value in both; with no lap or several, the Stats and the
\* laps are as the parse left them.
C8_SingleLapStats ==
    dpc = "returned" =>
        IF Len(parsedLaps) = 1
        THEN /\ Len(Laps) = 1
             /\ Stats = Laps[1]
             /\ \A k \in StatKeys :
                    /\ listingStats[k] # 0 => Stats[k] = listingStats[k] /\ Laps[1][k] = listingStats[k]
                    /\ listingStats[k] = 0 => Stats[k] = parsedLaps[1][k]
        ELSE /\ Stats = listingStats
             /\ Laps = parsedLaps

\* C8's case: the single parsed lap had a statistic the listing had not set and
\* another value for one it had set.
C8_Witness ==
    /\ dpc = "returned"
    /\ Len(parsedLaps) = 1
    /\ listingStats["HR"] = 0
    /\ parsedLaps[1]["HR"] # 0
    /\ parsedLaps[1]["Distance"] # 0
    /\ parsedLaps[1]["Distance"] # listingStats["Distance"]
    /\ Stats # listingStats

====
